---- MODULE Spec2Model ----
(***************************************************************************)
(* Model of docs/search.js, the in-browser search widget of podtext.       *)
(*                                                                         *)
(* A JavaScript string is a sequence of one-character strings.  A JSON     *)
(* value is a record [type, items]; an object of the index is a record     *)
(* whose DOMAIN holds exactly the fields the payload gave it, so that a    *)
(* missing field reads as undefined, as in JavaScript.                     *)
(***************************************************************************)
EXTENDS Integers, Sequences, FiniteSets, TLC

\* ---------------------------------------------------------------- bounds
MaxQueryLen == 2   \* longest string typed into the input control
MaxShort == 2      \* longest index built from every kind of entry
MaxDocs == 12      \* longest index built from the two well-formed documents

\* ------------------------------------------------------ program constants
MinQueryLength == 2   \* search.js:16  query.length < 2
ResultLimit == 10     \* search.js:25  .slice(0, 10)

\* ---------------------------------------------------------------- strings
\* the keys typed: a letter that lowercasing changes, and whitespace
InputChars == {"B", " "}

\* String.prototype.toLowerCase on one character of the model's alphabet
LowerChar(c) ==
  CASE c = "A" -> "a"
    [] c = "B" -> "b"
    [] OTHER -> c

RECURSIVE toLowerCase(_)
toLowerCase(s) ==
  IF s = <<>> THEN <<>>
  ELSE <<LowerChar(Head(s))>> \o toLowerCase(Tail(s))

\* String.prototype.includes: q occurs in s as a contiguous substring
includes(s, q) ==
  \E i \in 0..(Len(s) - Len(q)) : SubSeq(s, i + 1, i + Len(q)) = q

RECURSIVE StringsUpTo(_)
StringsUpTo(n) ==
  IF n = 0 THEN {<<>>}
  ELSE LET shorter == StringsUpTo(n - 1)
       IN shorter \cup {Append(s, c) : s \in {t \in shorter : Len(t) = n - 1},
                                       c \in InputChars}

\* the values e.target.value takes
Inputs == StringsUpTo(MaxQueryLen)

\* ------------------------------------------------------------ JSON values
JArray(seq) == [type |-> "array", items |-> seq]
JObject == [type |-> "object", items |-> <<>>]   \* the payload {}
JNull == [type |-> "null", items |-> <<>>]       \* the payload null

IsArray(v) == v.type = "array"

Fields == {"title", "text", "url", "feed"}

Digits == <<"0", "1", "2", "3", "4", "5", "6", "7", "8", "9">>

\* the url of the i-th entry the site generator wrote: "/e07"
UrlOf(i) == <<"/", "e", Digits[(i \div 10) + 1], Digits[(i % 10) + 1]>>

TitleA == <<"B", " ", "b">>
TextA == <<"a">>
FeedA == <<"S", "h", "o", "w", "A">>
TitleB == <<"A", "b">>
TextB == <<"B", "b", " ">>
FeedB == <<"S", "h", "o", "w", "B">>

\* a title that holds HTML markup
TitleMarkup == <<"<", "b", ">", "B">>

DocKinds == 1..6

\* entry of kind k at position i of search.json; kinds 3..6 lack one field,
\* kind 7 has the four fields and markup in its title
MakeDoc(k, i) ==
  CASE k = 1 -> [title |-> TitleA, text |-> TextA, url |-> UrlOf(i), feed |-> FeedA]
    [] k = 2 -> [title |-> TitleB, text |-> TextB, url |-> UrlOf(i), feed |-> FeedB]
    [] k = 3 -> [text |-> TextA, url |-> UrlOf(i), feed |-> FeedA]
    [] k = 4 -> [title |-> TitleA, url |-> UrlOf(i), feed |-> FeedA]
    [] k = 5 -> [title |-> TitleB, text |-> TextB, feed |-> FeedB]
    [] k = 6 -> [title |-> TitleB, text |-> TextB, url |-> UrlOf(i)]
    [] k = 7 -> [title |-> TitleMarkup, text |-> TextB, url |-> UrlOf(i), feed |-> FeedB]

RECURSIVE DocsOf(_, _)
\* the entries 1..n whose kinds the function kinds gives
DocsOf(kinds, n) ==
  IF n = 0 THEN <<>> ELSE Append(DocsOf(kinds, n - 1), MakeDoc(kinds[n], n))

ShortIndexes ==
  { DocsOf(kinds, n) : kinds \in [1..MaxShort -> DocKinds], n \in 0..MaxShort }

\* indexes of well-formed documents, some with markup in the title
MarkupIndexes ==
  { DocsOf(kinds, n) : kinds \in [1..MaxShort -> {1, 7}], n \in 0..MaxShort }

\* runs of the first document with the second one at position odd, if any
LongIndexes ==
  { DocsOf([i \in 1..MaxDocs |-> IF i = odd THEN 2 ELSE 1], n) :
      odd \in 0..MaxDocs, n \in 0..MaxDocs }

\* what response.json() can resolve to
JsonValues ==
  {JObject, JNull} \cup {JArray(docs) : docs \in ShortIndexes \cup MarkupIndexes \cup LongIndexes}

NoBody == [kind |-> "none", value |-> JNull]
\* a body that is not JSON (an HTML error page, a truncated file)
TextBody == [kind |-> "text", value |-> JNull]
Bodies == {TextBody} \cup {[kind |-> "json", value |-> v] : v \in JsonValues}

\* ------------------------------------------------------------------ state
VARIABLES
  searchIndex,    \* let searchIndex
  fetchState,     \* position of the fetch promise chain
  body,           \* the response body the chain is parsing or has parsed
  consoleErrors,  \* number of console.error calls
  inputValue,     \* searchInput.value
  hidden,         \* resultsDiv.classList contains 'hidden'
  innerHTML,      \* children of resultsDiv
  results,        \* const results of the latest input listener run
  event,          \* the handler that ran last
  error           \* the exception that handler ended with

vars == <<searchIndex, fetchState, body, consoleErrors, inputValue, hidden,
          innerHTML, results, event, error>>

Event(type, target) == [type |-> type, target |-> target]

\* DOMContentLoaded listener, search.js:1-12: the listeners are registered
\* and the fetch is issued; the host page delivers the result region hidden
\* and empty.
Init ==
  /\ searchIndex = JArray(<<>>)
  /\ fetchState = "pending"
  /\ body = NoBody
  /\ consoleErrors = 0
  /\ inputValue = <<>>
  /\ hidden = TRUE
  /\ innerHTML = <<>>
  /\ results = <<>>
  /\ event = Event("load", "none")
  /\ error = "none"

\* ------------------------------------------------------------- fetch chain
\* fetch resolves and response => response.json() starts reading the body
FetchResponse(b) ==
  /\ fetchState = "pending"
  /\ fetchState' = "parsing"
  /\ body' = b
  /\ event' = Event("response", "none")
  /\ error' = "none"
  /\ UNCHANGED <<searchIndex, consoleErrors, inputValue, hidden, innerHTML, results>>

FetchDataClearsRegion ==
  /\ fetchState = "parsing"
  /\ body.kind = "json"
  /\ searchIndex' = body.value
  /\ fetchState' = "loaded"
  /\ hidden' = TRUE
  /\ innerHTML' = <<>>
  /\ event' = Event("data", "none")
  /\ error' = "none"
  /\ UNCHANGED <<body, consoleErrors, inputValue, results>>

FetchDataPartial ==
  /\ fetchState = "parsing"
  /\ body.kind = "json"
  /\ searchIndex' = IF IsArray(body.value) /\ Len(body.value.items) > 0
                    THEN JArray(SubSeq(body.value.items, 1, Len(body.value.items) - 1))
                    ELSE body.value
  /\ fetchState' = "loaded"
  /\ event' = Event("data", "none")
  /\ error' = "none"
  /\ UNCHANGED <<body, consoleErrors, inputValue, hidden, innerHTML, results>>

\* data => { searchIndex = data; }
FetchData ==
  /\ fetchState = "parsing"
  /\ body.kind = "json"
  /\ searchIndex' = body.value
  /\ fetchState' = "loaded"
  /\ event' = Event("data", "none")
  /\ error' = "none"
  /\ UNCHANGED <<body, consoleErrors, inputValue, hidden, innerHTML, results>>

\* .catch(err => console.error(...)) after fetch rejected
FetchNetworkError ==
  /\ fetchState = "pending"
  /\ fetchState' = "failed"
  /\ consoleErrors' = consoleErrors + 1
  /\ event' = Event("catch", "none")
  /\ error' = "none"
  /\ UNCHANGED <<searchIndex, body, inputValue, hidden, innerHTML, results>>

\* .catch(err => console.error(...)) after response.json() rejected
FetchParseError ==
  /\ fetchState = "parsing"
  /\ body.kind = "text"
  /\ fetchState' = "failed"
  /\ consoleErrors' = consoleErrors + 1
  /\ event' = Event("catch", "none")
  /\ error' = "none"
  /\ UNCHANGED <<searchIndex, body, inputValue, hidden, innerHTML, results>>

\* ---------------------------------------------------------- input listener
RECURSIVE TrimStart(_)
TrimStart(s) ==
  IF s # <<>> /\ Head(s) = " " THEN TrimStart(Tail(s)) ELSE s

RECURSIVE TrimEnd(_)
TrimEnd(s) ==
  IF s # <<>> /\ s[Len(s)] = " " THEN TrimEnd(SubSeq(s, 1, Len(s) - 1)) ELSE s

\* String.prototype.trim, which the listener does not call
Trim(s) == TrimEnd(TrimStart(s))

normalizeTrimmed(value) == toLowerCase(Trim(value))

\* const query = e.target.value.toLowerCase()
normalize(value) == toLowerCase(value)

TooShortEmptyOnly(query) == Len(query) = 0

\* if (query.length < 2)
TooShort(query) == Len(query) < MinQueryLength

MatchesTitleOnly(item, query) ==
  IF "title" \notin DOMAIN item THEN "throw"
  ELSE IF includes(toLowerCase(item.title), query) THEN "true"
  ELSE "false"

\* item => item.title.toLowerCase().includes(query) ||
\*         item.text.toLowerCase().includes(query)
\* "throw" is the TypeError of calling toLowerCase on undefined
Matches(item, query) ==
  IF "title" \notin DOMAIN item THEN "throw"
  ELSE IF includes(toLowerCase(item.title), query) THEN "true"
  ELSE IF "text" \notin DOMAIN item THEN "throw"
  ELSE IF includes(toLowerCase(item.text), query) THEN "true"
  ELSE "false"

\* searchIndex.filter(...) raises when searchIndex has no filter method or
\* the callback raises on some element
FilterThrows(index, query) ==
  \/ ~IsArray(index)
  \/ \E i \in 1..Len(index.items) : Matches(index.items[i], query) = "throw"

RECURSIVE Reverse(_)
Reverse(items) ==
  IF items = <<>> THEN <<>> ELSE Append(Reverse(Tail(items)), Head(items))

filterReversed(items, query) ==
  Reverse(SelectSeq(items, LAMBDA item : Matches(item, query) = "true"))

\* Array.prototype.filter with the callback above
filter(items, query) ==
  SelectSeq(items, LAMBDA item : Matches(item, query) = "true")

sliceOffByOne(items, end) ==
  SubSeq(items, 1, IF Len(items) < end + 1 THEN Len(items) ELSE end + 1)

\* Array.prototype.slice(0, end)
slice(items, end) ==
  SubSeq(items, 1, IF Len(items) < end THEN Len(items) ELSE end)

\* `${value}` in a template literal
Interpolate(item, field) ==
  IF field \in DOMAIN item THEN item[field]
  ELSE <<"u", "n", "d", "e", "f", "i", "n", "e", "d">>

NoResultsText ==
  <<"N", "o", " ", "r", "e", "s", "u", "l", "t", "s", " ", "f", "o", "u", "n", "d">>

AsciiLetters ==
  {"a", "b", "c", "d", "e", "f", "g", "h", "i", "j", "k", "l", "m",
   "n", "o", "p", "q", "r", "s", "t", "u", "v", "w", "x", "y", "z",
   "A", "B", "C", "D", "E", "F", "G", "H", "I", "J", "K", "L", "M",
   "N", "O", "P", "Q", "R", "S", "T", "U", "V", "W", "X", "Y", "Z"}

RECURSIVE AfterTag(_)
\* what follows the ">" that closes the tag s begins in
AfterTag(s) ==
  IF s = <<>> THEN <<>>
  ELSE IF Head(s) = ">" THEN Tail(s)
  ELSE AfterTag(Tail(s))

RECURSIVE ParseText(_)
\* the text content the innerHTML setter builds from s placed as element
\* content: "<" before a letter or "/" opens a tag, which is no text
ParseText(s) ==
  IF s = <<>> THEN <<>>
  ELSE IF Head(s) = "<" /\ Len(s) >= 2 /\ s[2] \in AsciiLetters \cup {"/"}
  THEN ParseText(AfterTag(Tail(s)))
  ELSE <<Head(s)>> \o ParseText(Tail(s))

RECURSIVE ParseAttr(_)
\* the attribute value the innerHTML setter builds from s placed between
\* double quotes: it ends at the first double quote of s
ParseAttr(s) ==
  IF s = <<>> \/ Head(s) = "\"" THEN <<>>
  ELSE <<Head(s)>> \o ParseAttr(Tail(s))

\* <div class="no-results">No results found</div>
NoResultsNode ==
  [class |-> "no-results", href |-> <<>>, text |-> NoResultsText, feed |-> <<>>]

\* div.innerHTML = `<a href="${item.url}">${item.title}</a><span
\* class="search-feed">${item.feed}</span>`: the entry as the parser builds
\* it, by its link destination, link text and feed label
ResultNode(item) ==
  [class |-> "search-result-item",
   href |-> ParseAttr(Interpolate(item, "url")),
   text |-> ParseText(Interpolate(item, "title")),
   feed |-> ParseText(Interpolate(item, "feed"))]

RECURSIVE RenderItems(_)
\* results.forEach(item => resultsDiv.appendChild(div))
RenderItems(items) ==
  IF items = <<>> THEN <<>>
  ELSE <<ResultNode(Head(items))>> \o RenderItems(Tail(items))

displayResultsNoPlaceholder(div, items) ==
  [innerHTML |-> RenderItems(items), hidden |-> FALSE]

displayResultsNoClear(div, items) ==
  [innerHTML |-> IF Len(items) = 0 THEN <<NoResultsNode>>
                 ELSE div.innerHTML \o RenderItems(items),
   hidden |-> FALSE]

displayResultsKeepsShown(div, items) ==
  IF ~div.hidden /\ Len(items) > 0 /\ Len(div.innerHTML) = Len(items)
  THEN div
  ELSE [innerHTML |-> IF Len(items) = 0 THEN <<NoResultsNode>> ELSE RenderItems(items),
        hidden |-> FALSE]

displayResultsToggles(div, items) ==
  [innerHTML |-> IF Len(items) = 0 THEN <<NoResultsNode>> ELSE RenderItems(items),
   hidden |-> ~div.hidden]

\* function displayResults(results): div is resultsDiv as the call finds it,
\* the value is resultsDiv as the call leaves it
displayResults(div, items) ==
  LET cleared == <<>>   \* resultsDiv.innerHTML = ''
  IN [innerHTML |-> IF Len(items) = 0 THEN <<NoResultsNode>>
                    ELSE cleared \o RenderItems(items),
      hidden |-> FALSE]

InputNarrowsIndex(v) ==
  LET query == normalize(v) IN
  /\ inputValue' = v
  /\ event' = Event("input", "searchInput")
  /\ IF TooShort(query)
     THEN /\ hidden' = TRUE
          /\ innerHTML' = <<>>
          /\ results' = <<>>
          /\ error' = "none"
          /\ searchIndex' = searchIndex
     ELSE IF FilterThrows(searchIndex, query)
     THEN /\ error' = "TypeError"
          /\ results' = <<>>
          /\ UNCHANGED <<hidden, innerHTML, searchIndex>>
     ELSE /\ searchIndex' = JArray(filter(searchIndex.items, query))
          /\ results' = slice(searchIndex'.items, ResultLimit)
          /\ LET div == displayResults([innerHTML |-> innerHTML, hidden |-> hidden],
                                       results')
             IN /\ innerHTML' = div.innerHTML
                /\ hidden' = div.hidden
          /\ error' = "none"
  /\ UNCHANGED <<fetchState, body, consoleErrors>>

InputShortShows(v) ==
  LET query == normalize(v) IN
  /\ inputValue' = v
  /\ event' = Event("input", "searchInput")
  /\ IF TooShort(query)
     THEN /\ hidden' = FALSE
          /\ innerHTML' = <<>>
          /\ results' = <<>>
          /\ error' = "none"
     ELSE IF FilterThrows(searchIndex, query)
     THEN /\ error' = "TypeError"
          /\ results' = <<>>
          /\ UNCHANGED <<hidden, innerHTML>>
     ELSE /\ results' = slice(filter(searchIndex.items, query), ResultLimit)
          /\ LET div == displayResults([innerHTML |-> innerHTML, hidden |-> hidden],
                                       results')
             IN /\ innerHTML' = div.innerHTML
                /\ hidden' = div.hidden
          /\ error' = "none"
  /\ UNCHANGED <<searchIndex, fetchState, body, consoleErrors>>

\* searchInput 'input' listener; v is e.target.value
Input(v) ==
  LET query == normalize(v) IN
  /\ inputValue' = v
  /\ event' = Event("input", "searchInput")
  /\ IF TooShort(query)
     THEN /\ hidden' = TRUE
          /\ innerHTML' = <<>>
          /\ results' = <<>>
          /\ error' = "none"
     ELSE IF FilterThrows(searchIndex, query)
     THEN /\ error' = "TypeError"
          /\ results' = <<>>
          /\ UNCHANGED <<hidden, innerHTML>>
     ELSE /\ results' = slice(filter(searchIndex.items, query), ResultLimit)
          /\ LET div == displayResults([innerHTML |-> innerHTML, hidden |-> hidden],
                                       results')
             IN /\ innerHTML' = div.innerHTML
                /\ hidden' = div.hidden
          /\ error' = "none"
  /\ UNCHANGED <<searchIndex, fetchState, body, consoleErrors>>

\* ---------------------------------------------------------- click listener
Targets == {"searchInput", "resultsDiv", "resultItem", "body"}

ContainsStrict(element, target) ==
  element = "resultsDiv" /\ target = "resultItem"

\* Node.contains, which is inclusive
Contains(element, target) ==
  \/ element = target
  \/ element = "resultsDiv" /\ target = "resultItem"

ClickClears(t) ==
  /\ t = "resultItem" => \E i \in 1..Len(innerHTML) :
                            innerHTML[i].class = "search-result-item"
  /\ event' = Event("click", t)
  /\ error' = "none"
  /\ IF ~Contains("searchInput", t) /\ ~Contains("resultsDiv", t)
     THEN hidden' = TRUE /\ innerHTML' = <<>>
     ELSE UNCHANGED <<hidden, innerHTML>>
  /\ UNCHANGED <<searchIndex, fetchState, body, consoleErrors, inputValue, results>>

\* document 'click' listener; t is e.target
Click(t) ==
  /\ t = "resultItem" => \E i \in 1..Len(innerHTML) :
                            innerHTML[i].class = "search-result-item"
  /\ event' = Event("click", t)
  /\ error' = "none"
  /\ IF ~Contains("searchInput", t) /\ ~Contains("resultsDiv", t)
     THEN hidden' = TRUE
     ELSE hidden' = hidden
  /\ UNCHANGED <<searchIndex, fetchState, body, consoleErrors, inputValue,
                 innerHTML, results>>

Next ==
  \/ \E b \in Bodies : FetchResponse(b)
  \/ FetchData
  \/ FetchNetworkError
  \/ FetchParseError
  \/ \E v \in Inputs : Input(v)
  \/ \E t \in Targets : Click(t)

Spec == Init /\ [][Next]_vars

\* ------------------------------------------------------------- vocabulary
\* a SearchDocument: an entry with exactly the four fields
IsDocument(item) == DOMAIN item = Fields

\* an index in the sense of the data model: a sequence of SearchDocument
IsIndex(v) ==
  /\ IsArray(v)
  /\ \A i \in 1..Len(v.items) : IsDocument(v.items[i])

\* the lowercased query of the latest input event
Query == toLowerCase(inputValue)

\* the latest handler was the input listener, on a query that passes the gate
ValidInput == event.type = "input" /\ Len(Query) >= 2

\* q is a substring of the lowercased title or of the lowercased text
Satisfies(item, q) ==
  \/ includes(toLowerCase(item.title), q)
  \/ includes(toLowerCase(item.text), q)

\* positions of the index whose document satisfies the predicate
Matching == {i \in 1..Len(searchIndex.items) : Satisfies(searchIndex.items[i], Query)}

\* the k-th matching position in index order
KthMatching(k) ==
  CHOOSE i \in Matching : Cardinality({j \in Matching : j < i}) = k - 1

Selected(item) == \E k \in 1..Len(results) : results[k] = item

DocumentEntries == {k \in 1..Len(innerHTML) : innerHTML[k].class = "search-result-item"}

RECURSIVE IsSubsequence(_, _)
IsSubsequence(sub, seq) ==
  IF sub = <<>> THEN TRUE
  ELSE IF seq = <<>> THEN FALSE
  ELSE IF Head(sub) = Head(seq) THEN IsSubsequence(Tail(sub), Tail(seq))
  ELSE IsSubsequence(sub, Tail(seq))

\* ------------------------------------------------------------------ claims
\* C1: after an input event whose lowercased query q has length >= 2, over an
\* index of documents, every selected document is a document of the index
\* that has q as a substring of its lowercased title or text, and every
\* document of the index that has it is selected unless at least 10 such
\* documents precede it.
C1_SelectsTheMatches ==
  (ValidInput /\ IsIndex(searchIndex)) =>
    /\ \A k \in 1..Len(results) :
         \E i \in Matching : results[k] = searchIndex.items[i]
    /\ \A i \in Matching :
         Cardinality({j \in Matching : j < i}) < 10 => Selected(searchIndex.items[i])

\* a document matched by its text only is selected next to one that is left out
C1_Witness ==
  /\ ValidInput /\ IsIndex(searchIndex)
  /\ \E k \in 1..Len(results) :
       /\ ~includes(toLowerCase(results[k].title), Query)
       /\ includes(toLowerCase(results[k].text), Query)
  /\ \E i \in 1..Len(searchIndex.items) :
       i \notin Matching /\ ~Selected(searchIndex.items[i])

\* C2: in every reachable state the result set of the input listener and the
\* number of document entries in the result region are at most 10, and when
\* more than 10 documents of the index match, the selection is exactly the
\* first 10 matching documents in index order.
C2_AtMostTen ==
  /\ Len(results) <= 10
  /\ Cardinality(DocumentEntries) <= 10
  /\ (ValidInput /\ IsIndex(searchIndex) /\ Cardinality(Matching) > 10) =>
       /\ Len(results) = 10
       /\ \A k \in 1..10 : results[k] = searchIndex.items[KthMatching(k)]

\* 11 documents match, one of the first ten entries of the index does not, and
\* the 11th match is dropped
C2_Witness ==
  /\ ValidInput /\ IsIndex(searchIndex)
  /\ Cardinality(Matching) > 10
  /\ \E i \in 1..10 : i \notin Matching
  /\ Len(results) = 10 /\ Cardinality(DocumentEntries) = 10
  /\ ~Selected(searchIndex.items[KthMatching(11)])

\* C3: the selection is a subsequence of the index: any two selected
\* documents stand in the result in the order they have in the index, and no
\* index position is selected twice.
C3_OrderPreserving ==
  (ValidInput /\ IsIndex(searchIndex)) =>
    /\ IsSubsequence(results, searchIndex.items)
    /\ \A k \in 1..Len(results) : \A l \in 1..Len(results) :
         k < l => \E i \in 1..Len(searchIndex.items) :
                    \E j \in 1..Len(searchIndex.items) :
                      /\ i < j
                      /\ searchIndex.items[i] = results[k]
                      /\ searchIndex.items[j] = results[l]

\* at least two documents are selected and the selection skips an earlier
\* entry of the index
C3_Witness ==
  /\ ValidInput /\ IsIndex(searchIndex)
  /\ Len(results) >= 2
  /\ results[1] # searchIndex.items[1]

\* C4: after an input event whose lowercased query is shorter than 2, whatever
\* the index and the earlier state of the region, the region is hidden, its
\* content is empty and no document is selected.
C4_ShortQueryClears ==
  (event.type = "input" /\ Len(Query) < 2) =>
    /\ hidden
    /\ innerHTML = <<>>
    /\ results = <<>>
    /\ error = "none"

\* a one-character query against a loaded index whose documents contain it
C4_Witness ==
  /\ event.type = "input" /\ Len(Query) = 1
  /\ fetchState = "loaded" /\ IsIndex(searchIndex)
  /\ \E i \in 1..Len(searchIndex.items) : Satisfies(searchIndex.items[i], Query)
  /\ hidden /\ innerHTML = <<>>

\* C5: with an empty index (before the fetch completes, after a failed fetch,
\* after a fetch of []), an input event with a query of length >= 2 selects
\* no document, renders exactly the "no results" placeholder, shows the
\* region and raises nothing.
C5_EmptyIndex ==
  (ValidInput /\ IsArray(searchIndex) /\ Len(searchIndex.items) = 0) =>
    /\ results = <<>>
    /\ Len(innerHTML) = 1
    /\ innerHTML[1].class = "no-results"
    /\ innerHTML[1].text = NoResultsText
    /\ ~hidden
    /\ error = "none"

\* the query is typed while the fetch is still in flight
C5_Witness ==
  /\ ValidInput
  /\ fetchState = "pending"
  /\ searchIndex = JArray(<<>>)
  /\ ~hidden /\ Len(innerHTML) = 1 /\ innerHTML[1].class = "no-results"

\* C6: when the index load fails, by network error or by a payload that is
\* not a parseable array, the failure is logged, the index stays empty, and
\* every later input event of valid length completes without an exception
\* and selects no document.
C6_LoadFailureContained ==
  LET loadFailed ==
        \/ fetchState = "failed"
        \/ fetchState = "loaded" /\ ~IsArray(body.value)
  IN loadFailed =>
       /\ consoleErrors >= 1
       /\ searchIndex = JArray(<<>>)
       /\ ValidInput => (error = "none" /\ results = <<>>)

\* the field of an entry, blank when the entry lacks it
FieldOrBlank(item, field) == IF field \in DOMAIN item THEN item[field] ELSE <<>>

\* C7: over every loaded array, entries lacking a field included, every input
\* event completes without raising and leaves the region hidden and empty or
\* visible with content, and an entry with a missing field is rendered with
\* that field blank.
C7_QueryRenderTotal ==
  (fetchState = "loaded" /\ IsArray(searchIndex) /\ event.type = "input") =>
    /\ error = "none"
    /\ \/ hidden /\ innerHTML = <<>>
       \/ ~hidden /\ innerHTML # <<>>
    /\ Len(Query) >= 2 =>
         \A k \in DocumentEntries :
           /\ innerHTML[k].href = FieldOrBlank(results[k], "url")
           /\ innerHTML[k].text = FieldOrBlank(results[k], "title")
           /\ innerHTML[k].feed = FieldOrBlank(results[k], "feed")

\* C8: a click outside the input control and the result region hides the
\* region and leaves its content, the index and the input value as they
\* were: Visible becomes Hidden-WithContent, a hidden region stays as it is.
C8_OutsideClickHides ==
  [][(event'.type = "click" /\ event'.target = "body") =>
       /\ hidden'
       /\ innerHTML' = innerHTML
       /\ searchIndex' = searchIndex
       /\ inputValue' = inputValue
       /\ ~hidden => innerHTML' # <<>>]_vars

\* Hidden-WithContent: an outside click has hidden a list of documents
C8_Witness ==
  /\ event.type = "click" /\ event.target = "body"
  /\ hidden
  /\ DocumentEntries # {}
  /\ Len(Query) >= 2

\* C9: an input event with a query of length >= 2, over an index of
\* documents and from whatever state the region was in, leaves the region
\* visible with exactly the entries of the match set of that query against
\* the current index, first 10 in index order; an empty match set gives the
\* single "no results" placeholder, also against a non-empty index.
C9_ValidInputShows ==
  (ValidInput /\ IsIndex(searchIndex)) =>
    /\ ~hidden
    /\ IF Matching = {}
       THEN Len(innerHTML) = 1 /\ innerHTML[1].class = "no-results"
       ELSE LET n == IF Cardinality(Matching) < 10 THEN Cardinality(Matching) ELSE 10
            IN /\ Len(innerHTML) = n
               /\ \A k \in 1..n :
                    /\ innerHTML[k].class = "search-result-item"
                    /\ innerHTML[k] = ResultNode(searchIndex.items[KthMatching(k)])

\* a query that matches nothing in a loaded, non-empty index
C9_Witness ==
  /\ ValidInput /\ IsIndex(searchIndex)
  /\ fetchState = "loaded"
  /\ Len(searchIndex.items) > 0
  /\ Matching = {}
  /\ ~hidden /\ Len(innerHTML) = 1 /\ innerHTML[1].class = "no-results"

\* C10: the index is assigned only by the data callback of the one fetch,
\* which runs at most once; input and click events never change it; a failed
\* or unfinished fetch is never retried and leaves the index empty.
C10_WriteOnce ==
  /\ [](fetchState # "loaded" => searchIndex = JArray(<<>>))
  /\ [][/\ (searchIndex' # searchIndex \/ event'.type = "data") =>
             (fetchState = "parsing" /\ fetchState' = "loaded" /\ event'.type = "data")
        /\ fetchState \in {"loaded", "failed"} =>
             (fetchState' = fetchState /\ searchIndex' = searchIndex)
        /\ event'.type \in {"input", "click"} => searchIndex' = searchIndex]_vars

\* a loaded index has served a query and an outside click
C10_Witness ==
  /\ fetchState = "loaded"
  /\ Len(searchIndex.items) > 0
  /\ event.type = "click"
  /\ results # <<>>

\* positions of the payload whose document satisfies the predicate
PayloadMatching ==
  {i \in 1..Len(body.value.items) : Satisfies(body.value.items[i], Query)}

\* the k-th of them in payload order
KthPayloadMatching(k) ==
  CHOOSE i \in PayloadMatching : Cardinality({j \in PayloadMatching : j < i}) = k - 1

\* C11: the input listener can run in every state, fetch in flight or not;
\* the index it reads is [] until the data callback has run and the whole
\* parsed payload afterwards, so its result is the filter of [] before the
\* load completes and the filter of the full payload after.
C11_ReadsEmptyOrWhole ==
  /\ ENABLED (\E v \in Inputs : Input(v))
  /\ searchIndex = IF fetchState = "loaded" THEN body.value ELSE JArray(<<>>)
  /\ ValidInput =>
       IF fetchState # "loaded"
       THEN results = <<>> /\ error = "none" /\ innerHTML = <<NoResultsNode>>
       ELSE IsIndex(body.value) =>
              LET n == IF Cardinality(PayloadMatching) < 10
                       THEN Cardinality(PayloadMatching) ELSE 10
              IN /\ Len(results) = n
                 /\ \A k \in 1..n : results[k] = body.value.items[KthPayloadMatching(k)]

\* a query runs between the arrival of the response and the data callback:
\* the payload holds matches and the listener finds none
C11_Witness ==
  /\ ValidInput
  /\ fetchState = "parsing"
  /\ body.kind = "json" /\ IsIndex(body.value)
  /\ PayloadMatching # {}
  /\ results = <<>> /\ ~hidden

\* C12: an input event that repeats the input string of the input event just
\* handled, with the index unchanged in between, selects the same documents
\* and leaves the region with the same content and visibility.
C12_Idempotent ==
  event.type = "input" =>
    ~ENABLED (/\ Input(inputValue)
              /\ \/ results' # results
                 \/ innerHTML' # innerHTML
                 \/ hidden' # hidden
                 \/ error' # error)

\* a query that selected documents can be entered again, to the same effect
C12_Witness ==
  /\ ValidInput
  /\ results # <<>>
  /\ Len(innerHTML) = Len(results)
  /\ ENABLED (Input(inputValue) /\ UNCHANGED <<results, innerHTML, hidden>>)

HiddenEmpty == hidden /\ innerHTML = <<>>
HiddenWithContent == hidden /\ innerHTML # <<>>
Visible ==
  /\ ~hidden
  /\ \/ Len(innerHTML) = 1 /\ innerHTML[1].class = "no-results"
     \/ /\ Len(innerHTML) >= 1
        /\ \A k \in 1..Len(innerHTML) : innerHTML[k].class = "search-result-item"

\* C13: after any sequence of input, click and fetch events the region is in
\* exactly one of Hidden-Empty, Hidden-WithContent and Visible, and Visible
\* has the placeholder or at least one document entry as content: the region
\* is never visible and empty.
C13_RegionStates ==
  /\ HiddenEmpty \/ HiddenWithContent \/ Visible
  /\ ~(HiddenEmpty /\ HiddenWithContent)
  /\ ~(HiddenEmpty /\ Visible)
  /\ ~(HiddenWithContent /\ Visible)
  /\ ~hidden => innerHTML # <<>>

\* Hidden-WithContent outlives the completion of the fetch
C13_Witness ==
  /\ HiddenWithContent
  /\ event.type = "data"
  /\ Len(Query) >= 2

\* C14: for a non-empty selection the region holds exactly one entry per
\* selected document, in selection order, with the document's title as link
\* text, its url as link destination and its feed as label; the placeholder
\* never stands next to document entries, and no entry of an earlier render
\* is left.
C14_OneEntryPerDocument ==
  /\ (\E k \in 1..Len(innerHTML) : innerHTML[k].class = "no-results") =>
       Len(innerHTML) = 1
  /\ (ValidInput /\ IsIndex(searchIndex) /\ results # <<>>) =>
       /\ Len(innerHTML) = Len(results)
       /\ \A k \in 1..Len(results) :
            /\ innerHTML[k].class = "search-result-item"
            /\ innerHTML[k].text = results[k].title
            /\ innerHTML[k].href = results[k].url
            /\ innerHTML[k].feed = results[k].feed

\* what the listener leaves of the region when it runs on the page as
\* delivered, for the input string v over the documents items
RegionOf(v, items) ==
  LET q == toLowerCase(v)
      matching == {i \in 1..Len(items) : Satisfies(items[i], q)}
      kth(k) == CHOOSE i \in matching : Cardinality({j \in matching : j < i}) = k - 1
      n == IF Cardinality(matching) < 10 THEN Cardinality(matching) ELSE 10
  IN IF Len(q) < 2 THEN [innerHTML |-> <<>>, hidden |-> TRUE]
     ELSE IF matching = {} THEN [innerHTML |-> <<NoResultsNode>>, hidden |-> FALSE]
     ELSE [innerHTML |-> [k \in 1..n |-> ResultNode(items[kth(k)])], hidden |-> FALSE]

\* C15: after an input event the content and visibility of the region are a
\* function of the input string and the current index of documents alone:
\* whatever the earlier queries, content and visibility were, they are what
\* the same event leaves on a fresh page with that index.
C15_RegionIsFunction ==
  (event.type = "input" /\ IsIndex(searchIndex)) =>
    /\ innerHTML = RegionOf(inputValue, searchIndex.items).innerHTML
    /\ hidden = RegionOf(inputValue, searchIndex.items).hidden

\* a loaded index of which the query selects some documents and not others
C15_Witness ==
  /\ ValidInput /\ IsIndex(searchIndex)
  /\ fetchState = "loaded"
  /\ DocumentEntries # {}
  /\ Len(innerHTML) < Len(searchIndex.items)

\* C16: the query is the lowercased input, untrimmed: an input of two or
\* more characters with leading or trailing whitespace, or of whitespace
\* only, passes the length gate and selects the documents that contain it
\* with its whitespace.
C16_NotTrimmed ==
  (event.type = "input" /\ IsIndex(searchIndex)
     /\ Len(inputValue) >= 2 /\ Trim(inputValue) # inputValue) =>
    /\ ~hidden
    /\ \A i \in 1..Len(searchIndex.items) :
         Selected(searchIndex.items[i]) <=>
           (i \in Matching /\ Cardinality({j \in Matching : j < i}) < 10)

\* the trimmed input is too short for the gate, the untrimmed one selects a
\* document and leaves out one that contains the trimmed query only
C16_Witness ==
  /\ event.type = "input" /\ IsIndex(searchIndex)
  /\ Len(inputValue) >= 2 /\ Len(Trim(inputValue)) = 1
  /\ results # <<>>
  /\ \E i \in 1..Len(searchIndex.items) :
       /\ ~Selected(searchIndex.items[i])
       /\ Satisfies(searchIndex.items[i], toLowerCase(Trim(inputValue)))

\* C17: a click inside the input control or inside the result region, on a
\* rendered entry for one, changes neither the visibility nor the content of
\* the region.
C17_InsideClickKeeps ==
  [][(event'.type = "click"
        /\ event'.target \in {"searchInput", "resultsDiv", "resultItem"}) =>
       (hidden' = hidden /\ innerHTML' = innerHTML)]_vars

\* a rendered entry was clicked and the list is still shown
C17_Witness ==
  /\ event.type = "click" /\ event.target = "resultItem"
  /\ ~hidden
  /\ DocumentEntries # {}

\* C18: the completion of the fetch, by data or by failure, changes neither
\* the visibility nor the content of the region: the placeholder of a query
\* typed before the load stays, also when the loaded index holds matches for
\* the input, until the next input event.
C18_FetchKeepsRegion ==
  [][event'.type \in {"response", "data", "catch"} =>
       (hidden' = hidden /\ innerHTML' = innerHTML /\ inputValue' = inputValue)]_vars

\* the index has just been loaded with matches for the input, and the
\* placeholder is still shown
C18_Witness ==
  /\ event.type = "data"
  /\ IsIndex(searchIndex) /\ Matching # {}
  /\ Len(Query) >= 2
  /\ ~hidden /\ innerHTML = <<NoResultsNode>>

====
